---------------------------- MODULE Spec2Model ----------------------------
(***************************************************************************)
(* Face-recognition attendance system (src/main.cpp).                      *)
(*                                                                         *)
(* Strings are sequences of characters: <<"A">> is the name "A", <<>> the  *)
(* empty string, and a ledger line is the sequence of the characters of    *)
(* name, ",", date, ",", weekday.  Time is counted in ticks of the steady  *)
(* clock, TicksPerSec to the second.  The variables marked history are not *)
(* program state: they record what the run did, for the properties.        *)
(***************************************************************************)
EXTENDS Integers, Sequences, FiniteSets, TLC

VARIABLES
    pc,               \* "menu" (main's loop), "run" (runAttendance's loop), "exit"
    system_clock,     \* calendar day the wall clock shows (index into Calendar)
    steady_clock,     \* monotonic clock, in ticks
    current_date,     \* AttendanceSystem::current_date
    attendance_set,   \* AttendanceSystem::attendance_set
    last_mark_time,   \* AttendanceSystem::last_mark_time
    known_faces,      \* AttendanceSystem::known_faces, as its iteration order
    signature,        \* AttendanceSystem::known_faces, the image kept for each name
    photos,           \* the directory photos_path, as directory_iterator lists it
    ledger,           \* the lines of attendance_file
    startup_lines,    \* history: how many lines the file had at startup
    candidate_name,   \* runAttendance's locals
    candidate_start,
    verified_today,
    detected_name,    \* input of the verification logic at the last processed frame
    banner,           \* status text drawn at (10,30) on the last processed frame
    key,              \* the key press waiting in the window's event queue
    ev,               \* history: what the last iteration of the loop did to
                      \* the ledger and the cooldown table
    streak,           \* history: the unbroken run of identical inputs so far
    face,             \* recognizeFace: the query, as its mse to each known face
    best_name         \* recognizeFace: the value returned

vars == <<pc, system_clock, steady_clock, current_date, attendance_set,
          last_mark_time, known_faces, signature, photos, ledger, startup_lines,
          candidate_name, candidate_start, verified_today, detected_name, banner,
          key, ev, streak, face, best_name>>

---------------------------------------------------------------------------
(* Bounds of the model *)

MaxTime == 10
MaxStep == 2
MaxFaces == 2

\* resolution of the steady clock in the model: ticks to the second
TicksPerSec == 2

---------------------------------------------------------------------------
(* Program constants *)

DwellSeconds == 3
CooldownSeconds == 10
Threshold == 1500
DBL_MAX == 1000000

Unknown == <<"U", "n", "k", "n", "o", "w", "n">>

\* The enrolled identities: what inferName makes of the photo stems "A_1",
\* "_x" (cut at position 0, which leaves "") and "A,B" (no separator of
\* inferName in it: the name keeps its comma).  Bob is not enrolled; the
\* ledger may hold lines of his.
Stems == {<<"A", "_", "1">>, <<"_", "x">>, <<"A", ",", "B">>}
Alice == <<"A">>
Bob == <<"B">>
EmptyName == <<>>
Comma == <<"A", ",", "B">>

NPOS == -1

---------------------------------------------------------------------------
(* std::string *)

\* s.find(ch, from), positions counted from 0
find(s, ch, from) ==
    LET hits == {i \in 0..(Len(s) - 1) : i >= from /\ s[i + 1] = ch}
    IN  IF hits = {} THEN NPOS ELSE CHOOSE i \in hits : \A j \in hits : i <= j

\* s.find_first_of(chars)
find_first_of(s, chars) ==
    LET hits == {i \in 0..(Len(s) - 1) : s[i + 1] \in chars}
    IN  IF hits = {} THEN NPOS ELSE CHOOSE i \in hits : \A j \in hits : i <= j

\* s.substr(pos, n), for pos <= size
substr(s, pos, n) ==
    LET last == IF pos + n > Len(s) THEN Len(s) ELSE pos + n
    IN  SubSeq(s, pos + 1, last)

inferName(stem) ==
    LET pos == find_first_of(stem, {"_", "-", " "})
    IN  IF pos = NPOS THEN stem ELSE substr(stem, 0, pos)

Names == {inferName(st) : st \in Stems}

---------------------------------------------------------------------------
(* Wall clock: localtime of the three days the model spans *)

Calendar ==
    << [tm_year |-> 126, tm_mon |-> 10, tm_mday |-> 5, tm_wday |-> 4],
       [tm_year |-> 126, tm_mon |-> 10, tm_mday |-> 6, tm_wday |-> 5],
       [tm_year |-> 126, tm_mon |-> 10, tm_mday |-> 7, tm_wday |-> 6] >>

Digit == <<"0", "1", "2", "3", "4", "5", "6", "7", "8", "9">>

\* operator<< of a non-negative int
RECURSIVE Dec(_)
Dec(n) == IF n < 10 THEN <<Digit[n + 1]>> ELSE Dec(n \div 10) \o <<Digit[(n % 10) + 1]>>

\* setw(2) << setfill('0') << n
Pad2(n) == IF Len(Dec(n)) < 2 THEN <<"0">> \o Dec(n) ELSE Dec(n)

getCurrentDate(day) ==
    LET local_tm == Calendar[day]
    IN  Dec(local_tm.tm_year + 1900) \o <<"-">> \o Pad2(local_tm.tm_mon + 1)
            \o <<"-">> \o Pad2(local_tm.tm_mday)

days ==
    << <<"S", "u", "n">>, <<"M", "o", "n">>, <<"T", "u", "e">>, <<"W", "e", "d">>,
       <<"T", "h", "u">>, <<"F", "r", "i">>, <<"S", "a", "t">> >>

getCurrentDay(day) == days[Calendar[day].tm_wday + 1]

---------------------------------------------------------------------------
(* The ledger file *)

\* file << name << "," << current_date << "," << day << "\n"
WriteRecord(name, date, day) == name \o <<",">> \o date \o <<",">> \o day

\* the date field taken one character too long
LoadLine_OffByOne(line, date) ==
    LET c1 == find(line, ",", 0)
        c2 == find(line, ",", c1 + 1)
    IN  IF c1 = NPOS \/ c2 = NPOS THEN {}
        ELSE IF substr(line, c1 + 1, c2 - c1) = date
             THEN {substr(line, 0, c1)}
             ELSE {}

\* the name loadAttendance inserts for one line, or no name
LoadLine(line, date) ==
    LET c1 == find(line, ",", 0)
        c2 == find(line, ",", c1 + 1)
    IN  IF c1 = NPOS \/ c2 = NPOS THEN {}
        ELSE IF substr(line, c1 + 1, c2 - c1 - 1) = date
             THEN {substr(line, 0, c1)}
             ELSE {}

loadAttendance(lines, date) ==
    UNION {LoadLine(lines[i], date) : i \in 1..Len(lines)}

---------------------------------------------------------------------------
(* loadKnownFaces.  A directory entry is a record: stem and ext of its     *)
(* path, regular (is_regular_file), and img, the face extractFace cuts out *)
(* of the file read as an image (NoFace where imread or the detector give  *)
(* nothing).  A face is named by a number.                                 *)

NoFace == 0

\* ::tolower on the characters the extensions of the model are written in
tolower(ch) ==
    CASE ch = "J" -> "j" [] ch = "P" -> "p" [] ch = "G" -> "g" [] ch = "N" -> "n"
      [] OTHER -> ch

ImageExts ==
    { <<".", "j", "p", "g">>, <<".", "j", "p", "e", "g">>, <<".", "p", "n", "g">>,
      <<".", "b", "m", "p">>, <<".", "t", "i", "f", "f">> }

isImage(ext) == [i \in 1..Len(ext) |-> tolower(ext[i])] \in ImageExts

\* the loop over the directory with first-write-wins
RECURSIVE LoadLoop_FirstWins(_, _, _, _)
LoadLoop_FirstWins(entries, i, faces, loaded) ==
    IF i > Len(entries) THEN [faces |-> faces, loaded |-> loaded]
    ELSE LET entry == entries[i]
             name == inferName(entry.stem)
         IN  IF ~entry.regular \/ ~isImage(entry.ext) \/ entry.img = NoFace
             THEN LoadLoop_FirstWins(entries, i + 1, faces, loaded)
             ELSE IF name \in DOMAIN faces
             THEN LoadLoop_FirstWins(entries, i + 1, faces, loaded + 1)
             ELSE LoadLoop_FirstWins(entries, i + 1,
                      [n \in (DOMAIN faces) \cup {name} |->
                          IF n = name THEN entry.img ELSE faces[n]],
                      loaded + 1)

\* the loop over the directory: known_faces[name] = face; loaded++
RECURSIVE LoadLoop(_, _, _, _)
LoadLoop(entries, i, faces, loaded) ==
    IF i > Len(entries) THEN [faces |-> faces, loaded |-> loaded]
    ELSE LET entry == entries[i]
             name == inferName(entry.stem)
         IN  IF ~entry.regular \/ ~isImage(entry.ext) \/ entry.img = NoFace
             THEN LoadLoop(entries, i + 1, faces, loaded)
             ELSE LoadLoop(entries, i + 1,
                      [n \in (DOMAIN faces) \cup {name} |->
                          IF n = name THEN entry.img ELSE faces[n]],
                      loaded + 1)

\* exit: the process ends with EXIT_FAILURE; faces: known_faces on return
loadKnownFaces(dir) ==
    IF ~dir.exists THEN [exit |-> TRUE, faces |-> << >>]
    ELSE LET r == LoadLoop(dir.entries, 1, << >>, 0)
         IN  [exit |-> r.loaded = 0, faces |-> r.faces]

\* the photos of the enrolled identities
Photos ==
    [exists |-> TRUE,
     entries |-> << [stem |-> <<"A", "_", "1">>, ext |-> <<".", "j", "p", "g">>,
                     regular |-> TRUE, img |-> 1],
                    [stem |-> <<"_", "x">>, ext |-> <<".", "j", "p", "g">>,
                     regular |-> TRUE, img |-> 2],
                    [stem |-> <<"A", ",", "B">>, ext |-> <<".", "j", "p", "g">>,
                     regular |-> TRUE, img |-> 3] >>]

---------------------------------------------------------------------------
(* recognizeFace: the query face is given by its mean squared error to each *)
(* known face; known_faces is given by the order its iteration visits.      *)

RECURSIVE ScanFaces(_, _, _, _, _)
ScanFaces(mse, kf, i, min_mse, name) ==
    IF i > Len(kf) THEN name
    ELSE IF mse[kf[i]] < min_mse /\ mse[kf[i]] < Threshold
         THEN ScanFaces(mse, kf, i + 1, mse[kf[i]], kf[i])
         ELSE ScanFaces(mse, kf, i + 1, min_mse, name)

\* a scan that keeps the last face under the threshold, not the nearest
RECURSIVE ScanFaces_NoMin(_, _, _, _)
ScanFaces_NoMin(mse, kf, i, name) ==
    IF i > Len(kf) THEN name
    ELSE IF mse[kf[i]] < Threshold
         THEN ScanFaces_NoMin(mse, kf, i + 1, kf[i])
         ELSE ScanFaces_NoMin(mse, kf, i + 1, name)

recognizeFace_NoMin(mse, kf) == ScanFaces_NoMin(mse, kf, 1, Unknown)

recognizeFace(mse, kf) == ScanFaces(mse, kf, 1, DBL_MAX, Unknown)

\* a loop that keeps the name of the first face
RECURSIVE DetectLoop_First(_, _, _, _)
DetectLoop_First(faces, kf, i, name) ==
    IF faces = <<>> THEN name ELSE recognizeFace(faces[1], kf)

\* the loop over the detected faces of one frame: the last assignment stays
RECURSIVE DetectLoop(_, _, _, _)
DetectLoop(faces, kf, i, name) ==
    IF i > Len(faces) THEN name
    ELSE DetectLoop(faces, kf, i + 1, recognizeFace(faces[i], kf))

DetectedName(faces, kf) == DetectLoop(faces, kf, 1, Unknown)

---------------------------------------------------------------------------
(* markAttendance *)

\* the cooldown compared in ticks of the clock, not in seconds
CooldownActive_Ticks(lmt, name, now) ==
    name \in DOMAIN lmt /\ (now - lmt[name]) < CooldownSeconds

CooldownActive(lmt, name, now) ==
    name \in DOMAIN lmt /\ (now - lmt[name]) < CooldownSeconds * TicksPerSec

Stamp(lmt, name, now) ==
    [n \in (DOMAIN lmt) \cup {name} |-> IF n = name THEN now ELSE lmt[n]]

\* The fields the call leaves behind, and what it did (stamp: wrote the
\* cooldown table; insert: added to attendance_set; append: wrote a line).
\* now is the steady clock as the call reads it, the tick of the frame;
\* is_open is whether the ofstream opened.
markAttendance(name, now, set, lmt, lines, date, day, is_open) ==
    IF CooldownActive(lmt, name, now)
    THEN [set |-> set, lmt |-> lmt, lines |-> lines,
          stamp |-> FALSE, insert |-> FALSE, append |-> FALSE]
    ELSE IF name \in set
    THEN [set |-> set, lmt |-> Stamp(lmt, name, now), lines |-> lines,
          stamp |-> TRUE, insert |-> FALSE, append |-> FALSE]
    ELSE [set |-> set \cup {name}, lmt |-> Stamp(lmt, name, now),
          lines |-> IF is_open THEN Append(lines, WriteRecord(name, date, day))
                    ELSE lines,
          stamp |-> TRUE, insert |-> TRUE, append |-> is_open]

---------------------------------------------------------------------------
(* runAttendance: the verification logic of one frame *)

\* the comparison written as duration > 3
DwellReached_Strict(now, start) == ((now - start) \div TicksPerSec) > DwellSeconds

\* duration_cast<seconds>(now - candidate_start).count() >= 3
DwellReached(now, start) == ((now - start) \div TicksPerSec) >= DwellSeconds

\* the verification logic without the test of attendance_set
Branch_NoSetCheck(detected, cand, start, verified, set, now) ==
    IF detected = Unknown THEN "reset"
    ELSE IF cand # detected THEN "new"
    ELSE IF ~DwellReached(now, start) THEN "wait"
    ELSE IF ~verified THEN "mark"
    ELSE "shown"

\* Which branch the frame takes:
\*   "reset"   no identity               "new"      another candidate
\*   "wait"    below the dwell time      "marked"   already in attendance_set
\*   "mark"    markAttendance is called  "shown"    verified_today already set
Branch(detected, cand, start, verified, set, now) ==
    IF detected = Unknown THEN "reset"
    ELSE IF cand # detected THEN "new"
    ELSE IF ~DwellReached(now, start) THEN "wait"
    ELSE IF cand \in set THEN "marked"
    ELSE IF ~verified THEN "mark"
    ELSE "shown"

NextCandidate(b, detected, cand) ==
    IF b = "reset" THEN <<>> ELSE IF b = "new" THEN detected ELSE cand

NextStart(b, now, start) == IF b = "new" THEN now ELSE start

NextVerified(b, verified) ==
    IF b \in {"reset", "new"} THEN FALSE
    ELSE IF b \in {"marked", "mark"} THEN TRUE
    ELSE verified

\* the text put at (10,30), by its kind
Banner(b) ==
    IF b = "wait" THEN "Verifying"
    ELSE IF b = "marked" THEN "Attendance Marked For Today"
    ELSE IF b \in {"mark", "shown"} THEN "Attendance Successful"
    ELSE "none"

---------------------------------------------------------------------------
(* Inputs *)

Near == 100
Far == 4000

\* a face that matches the known face of n and no other; a face matching none
LooksLike(n) == [m \in Names |-> IF m = n THEN Near ELSE Far]
Stranger == [m \in Names |-> Far]
Queries == {LooksLike(n) : n \in Names} \cup {Stranger}

\* what detectMultiScale and the crop give for one frame
FaceLists == UNION {[1..k -> Queries] : k \in 0..MaxFaces}

\* waitKey(10)
Keys == {"q", "Q", "none"}

\* c == 'q' || c == 'Q'
IsQuit(c) == c = "q" \/ c = "Q"

\* attendance_file as the process finds it
OldLine(name, day) == WriteRecord(name, getCurrentDate(day), getCurrentDay(day))
InitLedgers ==
    { <<>>,
      <<OldLine(Alice, 2), OldLine(Comma, 2)>>,
      <<OldLine(Bob, 1), Alice \o <<",">> \o getCurrentDate(2), OldLine(EmptyName, 2)>> }

\* the order in which known_faces is iterated, for the gallery of Names
GalleryOrder == <<EmptyName, Alice, Comma>>

---------------------------------------------------------------------------
(* History of the run, kept for the properties *)

\* boxes: the names given to the first and the last face of the frame, where
\* the step
\* keeps them; empty: the iteration had an empty frame
NoEvent == [frame |-> FALSE, empty |-> FALSE, call |-> FALSE, stamp |-> FALSE,
            insert |-> FALSE, append |-> FALSE, boxes |-> <<>>]

\* on: the last frame had an identity; t0: time of the first frame of the
\* run of identical inputs; pre: whether the identity was in attendance_set
\* when the run began; resumed: the run began after frames without identity
\* that followed a run of the same identity; calls, stamps, appends:
\* markAttendance calls, cooldown-table writes and ledger lines of the run;
\* long: frames of the run at 3 seconds or more from t0 (counted up to 2);
\* failed: an open of the ledger failed in the run; last: the identity of
\* the run that ended last
NoStreak == [on |-> FALSE, t0 |-> 0, pre |-> FALSE, resumed |-> FALSE,
             calls |-> 0, stamps |-> 0, appends |-> 0, long |-> 0,
             failed |-> FALSE, last |-> Unknown]

Elapsed3(now, t0) == now - t0 >= DwellSeconds * TicksPerSec

NextStreak(detected, prev, now, set, r, called) ==
    IF detected = Unknown
    THEN [NoStreak EXCEPT !.last = IF streak.on THEN prev ELSE streak.last]
    ELSE LET cont == streak.on /\ prev = detected
             base == IF cont THEN streak
                     ELSE [NoStreak EXCEPT
                             !.on = TRUE, !.t0 = now, !.pre = detected \in set,
                             !.resumed = ~streak.on /\ streak.last = detected]
         IN  [base EXCEPT
                !.calls = @ + (IF called THEN 1 ELSE 0),
                !.stamps = @ + (IF r.stamp THEN 1 ELSE 0),
                !.appends = @ + (IF r.append THEN 1 ELSE 0),
                !.long = IF Elapsed3(now, base.t0) /\ @ < 2 THEN @ + 1 ELSE @,
                !.failed = @ \/ (r.insert /\ ~r.append)]

---------------------------------------------------------------------------
(* The program *)

Init ==
    /\ pc = "menu"
    /\ system_clock = 2
    /\ steady_clock = 0
    /\ current_date = getCurrentDate(system_clock)
    /\ ledger \in InitLedgers
    /\ startup_lines = Len(ledger)
    /\ attendance_set = loadAttendance(ledger, current_date)
    /\ last_mark_time = << >>
    /\ photos = Photos
    /\ signature = loadKnownFaces(photos).faces
    /\ known_faces = GalleryOrder
    /\ key = "none"
    /\ candidate_name = Unknown
    /\ candidate_start = 0
    /\ verified_today = FALSE
    /\ detected_name = Unknown
    /\ banner = "none"
    /\ ev = NoEvent
    /\ streak = NoStreak
    /\ face = Stranger
    /\ best_name = Unknown

\* main, choice 1: runAttendance up to its loop
StartAttendance ==
    /\ pc = "menu"
    /\ pc' = "run"
    /\ candidate_name' = Unknown
    /\ candidate_start' = 0
    /\ verified_today' = FALSE
    /\ detected_name' = Unknown
    /\ banner' = "none"
    /\ ev' = NoEvent
    /\ streak' = NoStreak
    /\ UNCHANGED <<system_clock, steady_clock, current_date, attendance_set,
                   last_mark_time, known_faces, signature, photos, key, ledger, startup_lines, face,
                   best_name>>

\* main, choice 1, when the webcam cannot be opened: runAttendance returns
CannotOpenWebcam ==
    /\ pc = "menu"
    /\ UNCHANGED vars

\* main, choice 2: viewAttendanceToday prints attendance_set
ViewAttendanceToday ==
    /\ pc = "menu"
    /\ UNCHANGED vars

\* an empty frame that puts the locals back to their first values
EmptyFrame_Reset ==
    /\ pc = "run"
    /\ \E d \in 1..MaxStep :
          /\ steady_clock + d <= MaxTime
          /\ steady_clock' = steady_clock + d
    /\ ev' = [NoEvent EXCEPT !.empty = TRUE]
    /\ candidate_name' = Unknown
    /\ verified_today' = FALSE
    /\ UNCHANGED <<pc, system_clock, current_date, attendance_set, last_mark_time,
                   known_faces, signature, photos, key, ledger, startup_lines,
                   candidate_start, detected_name, banner, streak, face, best_name>>

\* one iteration of the loop with an empty frame: continue
EmptyFrame ==
    /\ pc = "run"
    /\ \E d \in 1..MaxStep :
          /\ steady_clock + d <= MaxTime
          /\ steady_clock' = steady_clock + d
    /\ ev' = [NoEvent EXCEPT !.empty = TRUE]
    /\ UNCHANGED <<pc, system_clock, current_date, attendance_set, last_mark_time,
                   known_faces, signature, photos, key, ledger, startup_lines, candidate_name,
                   candidate_start, verified_today, detected_name, banner, streak,
                   face, best_name>>

\* The loop body from the verification logic on, for a frame whose faces
\* were matched to boxes (one name a face, in the order of the detector's
\* list) and gave detected; now is the steady clock read at line 215 and
\* quit whether waitKey returns 'q' or 'Q'.
FrameStep(now, boxes, detected, quit) ==
    LET b == Branch(detected, candidate_name, candidate_start,
                    verified_today, attendance_set, now)
        called == b = "mark"
    IN  /\ \E is_open \in IF called THEN BOOLEAN ELSE {TRUE} :
              LET r == IF called
                       THEN markAttendance(candidate_name, now, attendance_set,
                                last_mark_time, ledger, current_date,
                                getCurrentDay(system_clock), is_open)
                       ELSE [set |-> attendance_set, lmt |-> last_mark_time,
                             lines |-> ledger, stamp |-> FALSE,
                             insert |-> FALSE, append |-> FALSE]
              IN  /\ attendance_set' = r.set
                  /\ last_mark_time' = r.lmt
                  /\ ledger' = r.lines
                  /\ ev' = IF quit THEN NoEvent
                           ELSE [frame |-> TRUE, empty |-> FALSE, call |-> called,
                                 stamp |-> r.stamp, insert |-> r.insert,
                                 append |-> r.append, boxes |-> boxes]
                  /\ streak' = IF quit THEN NoStreak
                               ELSE NextStreak(detected, detected_name, now,
                                               attendance_set, r, called)
        \* break, cap.release(), destroyAllWindows(): the locals and the
        \* window are gone
        /\ pc' = IF quit THEN "menu" ELSE "run"
        /\ detected_name' = IF quit THEN Unknown ELSE detected
        /\ candidate_name' =
              IF quit THEN Unknown ELSE NextCandidate(b, detected, candidate_name)
        /\ candidate_start' = IF quit THEN 0 ELSE NextStart(b, now, candidate_start)
        /\ verified_today' = IF quit THEN FALSE ELSE NextVerified(b, verified_today)
        /\ banner' = IF quit THEN "none" ELSE Banner(b)

\* one iteration of the loop with a frame: detection, verification logic,
\* markAttendance where it is called, imshow and waitKey.  The faces of the
\* frame enter by the name the loop over them leaves in detected_name.
ProcessFrame ==
    /\ pc = "run"
    /\ \E detected \in {DetectedName(faces, known_faces) : faces \in FaceLists},
          d \in 1..MaxStep,
          quit \in {IsQuit(c) : c \in Keys} :
          /\ steady_clock + d <= MaxTime
          /\ steady_clock' = steady_clock + d
          /\ FrameStep(steady_clock + d, <<>>, detected, quit)
    /\ UNCHANGED <<system_clock, current_date, known_faces, signature, photos,
                   key, startup_lines, face, best_name>>

\* the wall clock passes midnight
Midnight ==
    /\ pc # "exit"
    /\ system_clock < Len(Calendar)
    /\ system_clock' = system_clock + 1
    /\ UNCHANGED <<pc, steady_clock, current_date, attendance_set, last_mark_time,
                   known_faces, signature, photos, key, ledger, startup_lines, candidate_name,
                   candidate_start, verified_today, detected_name, banner, ev,
                   streak, face, best_name>>

\* main, choice 3
Exit ==
    /\ pc = "menu"
    /\ pc' = "exit"
    /\ UNCHANGED <<system_clock, steady_clock, current_date, attendance_set,
                   last_mark_time, known_faces, signature, photos, key, ledger, startup_lines,
                   candidate_name, candidate_start, verified_today, detected_name,
                   banner, ev, streak, face, best_name>>

Next ==
    \/ StartAttendance
    \/ CannotOpenWebcam
    \/ ViewAttendanceToday
    \/ EmptyFrame
    \/ ProcessFrame
    \/ Midnight
    \/ Exit

Spec == Init /\ [][Next]_vars

---------------------------------------------------------------------------
(* recognizeFace on its own: every gallery over MatchNames, in every order  *)
(* its iteration may take, and every query with distances in Distances      *)

MatchNames == {Alice, Bob, EmptyName}
Distances == {Near, Threshold - 1, Threshold, Far}

Range(f) == {f[i] : i \in DOMAIN f}

Galleries ==
    {kf \in UNION {[1..k -> MatchNames] : k \in 0..Cardinality(MatchNames)} :
        \A i, j \in DOMAIN kf : i # j => kf[i] # kf[j]}

\* the face kept for n: the one of its photo
RankOfFace(kf, n) == CHOOSE i \in DOMAIN kf : kf[i] = n

InitMatch ==
    /\ pc = "match"
    /\ known_faces \in Galleries
    /\ photos = [exists |-> TRUE,
                 entries |-> [i \in 1..Len(known_faces) |->
                                [stem |-> known_faces[i] \o <<"_", "1">>,
                                 ext |-> <<".", "j", "p", "g">>,
                                 regular |-> TRUE, img |-> i]]]
    /\ signature = [n \in Range(known_faces) |-> RankOfFace(known_faces, n)]
    /\ key = "none"
    /\ face \in [MatchNames -> Distances]
    /\ best_name = Unknown
    /\ system_clock = 2
    /\ steady_clock = 0
    /\ current_date = getCurrentDate(system_clock)
    /\ ledger = <<>>
    /\ startup_lines = 0
    /\ attendance_set = {}
    /\ last_mark_time = << >>
    /\ candidate_name = Unknown
    /\ candidate_start = 0
    /\ verified_today = FALSE
    /\ detected_name = Unknown
    /\ banner = "none"
    /\ ev = NoEvent
    /\ streak = NoStreak

Recognize ==
    /\ pc = "match"
    /\ best_name' = recognizeFace(face, known_faces)
    /\ pc' = "matched"
    /\ UNCHANGED <<system_clock, steady_clock, current_date, attendance_set,
                   last_mark_time, known_faces, signature, photos, key, ledger, startup_lines,
                   candidate_name, candidate_start, verified_today, detected_name,
                   banner, ev, streak, face>>

NextMatch == Recognize

SpecMatch == InitMatch /\ [][NextMatch]_vars

\* the least distance of the query to a known face
MinDistance == CHOOSE d \in {face[n] : n \in Range(known_faces)} :
                   \A n \in Range(known_faces) : d <= face[n]

\* C8: recognizeFace returns an identity at the least distance when that
\* distance is strictly below the threshold, and Unknown when the least
\* distance is at or above the threshold or the gallery is empty.
C8_NearestBelowThreshold ==
    pc = "matched" =>
        IF known_faces # <<>> /\ MinDistance < Threshold
        THEN best_name \in Range(known_faces) /\ face[best_name] = MinDistance
        ELSE best_name = Unknown

\* a match where a farther face under the threshold was visited last
C8_Witness ==
    /\ pc = "matched"
    /\ Len(known_faces) = 3
    /\ face[best_name] = Near
    /\ face[known_faces[3]] = Threshold - 1
    /\ face[known_faces[2]] = Threshold

\* identities in their sorted order
Canonical == <<EmptyName, Alice, Bob>>
RankOf(n) == CHOOSE i \in DOMAIN Canonical : Canonical[i] = n
Nearest == {n \in Range(known_faces) : face[n] = MinDistance}

\* C9: when the accepted least distance is shared by two identities,
\* recognizeFace returns the one that is first in sorted order, whatever the
\* order of the gallery's iteration.
C9_CanonicalTieBreak ==
    (pc = "matched" /\ known_faces # <<>> /\ MinDistance < Threshold
        /\ Cardinality(Nearest) >= 2)
    => \A n \in Nearest : RankOf(best_name) <= RankOf(n)

---------------------------------------------------------------------------
(* The ledger as a list of records Identity,Date,WeekdayLabel: a line with  *)
(* fewer than two commas is no record.                                      *)

Commas(line) == {i \in 1..Len(line) : line[i] = ","}
IsRecord(line) == Cardinality(Commas(line)) >= 2
FirstComma(line) == CHOOSE i \in Commas(line) : \A j \in Commas(line) : i <= j
SecondComma(line) ==
    CHOOSE i \in Commas(line) \ {FirstComma(line)} :
        \A j \in Commas(line) \ {FirstComma(line)} : i <= j
RecordIdentity(line) == SubSeq(line, 1, FirstComma(line) - 1)
RecordDate(line) == SubSeq(line, FirstComma(line) + 1, SecondComma(line) - 1)

\* line i is a record of identity x dated d
RecordAt(i, x, d) ==
    /\ IsRecord(ledger[i])
    /\ RecordIdentity(ledger[i]) = x
    /\ RecordDate(ledger[i]) = d

Success == "Attendance Successful"
AlreadyMarked == "Attendance Marked For Today"

\* the last step processed a frame that carried an identity
IdentityFrame == pc = "run" /\ ev.frame /\ streak.on

---------------------------------------------------------------------------
\* C1: the ledger never holds two records with the same identity and the
\* same date (the ledgers the run starts from hold none).
C1_UniqueRecords ==
    \A i, j \in 1..Len(ledger) :
        (i < j /\ IsRecord(ledger[i]) /\ IsRecord(ledger[j]))
        => ~(/\ RecordIdentity(ledger[i]) = RecordIdentity(ledger[j])
             /\ RecordDate(ledger[i]) = RecordDate(ledger[j]))

\* C2: a frame writes a ledger record or a cooldown-table entry for X only
\* if X has been the input of every frame of an unbroken run whose first
\* frame lies at least 3 seconds back.
C2_DwellBeforeWrite ==
    (ev.stamp \/ ev.append) => (streak.on /\ Elapsed3(steady_clock, streak.t0))

C4_RestartAfterGap ==
    (IdentityFrame /\ streak.resumed)
    => (candidate_name = detected_name /\ candidate_start = streak.t0)

\* C5: once a frame of a run of X has shown the success or the
\* already-marked status, the next frame of the same run shows the same
\* status, calls markAttendance no more and leaves the ledger alone.
C5_StatusPersists ==
    [][(/\ pc = "run"
        /\ streak.on
        /\ banner \in {Success, AlreadyMarked}
        /\ steady_clock' # steady_clock
        /\ IdentityFrame'
        /\ streak'.t0 = streak.t0)
       => (banner' = banner /\ ~ev'.call /\ ledger' = ledger)]_vars

\* the last line of the ledger is a record of x dated current_date that
\* carries a weekday label
LastLineRecords(x) ==
    /\ ledger # <<>>
    /\ \E w \in Range(days) : ledger[Len(ledger)] = x \o <<",">> \o current_date \o <<",">> \o w

\* C6: with a writable ledger and X not in today's set, a run of X appends
\* nothing before its first frame at 3 seconds or more, appends exactly one
\* record (X, current date, weekday) at that frame, and later frames of X
\* append nothing and show the already-marked status.
C6_OneRecordAtThreshold ==
    /\ (IdentityFrame /\ ~streak.pre /\ ~streak.failed)
       => /\ streak.long = 0 => (streak.appends = 0 /\ ~ev.append)
          /\ streak.long = 1 =>
                (ev.append /\ streak.appends = 1 /\ LastLineRecords(detected_name))
          /\ streak.long = 2 =>
                (~ev.append /\ streak.appends = 1 /\ banner = AlreadyMarked)
    /\ (IdentityFrame /\ streak.pre /\ streak.long >= 1
            /\ detected_name \in DOMAIN last_mark_time)
       => (streak.appends = 0 /\ banner = AlreadyMarked)

\* identities with a record dated current_date in the ledger at startup
RecordedAtStartup ==
    {RecordIdentity(ledger[i]) :
        i \in {j \in 1..startup_lines :
                 IsRecord(ledger[j]) /\ RecordDate(ledger[j]) = current_date}}

\* line is what markAttendance writes for x on date d
WrittenFor(line, x, d) == \E w \in Range(days) : line = WriteRecord(x, d, w)

\* x has a line of current_date in the ledger the process started from
MarkedAtStartup(x) ==
    \E i \in 1..startup_lines : WrittenFor(ledger[i], x, current_date)

\* C7: for an identity X with a record dated today in the ledger at startup
\* no record is ever appended, the success status is never shown, and the
\* already-marked status is shown when a run of X reaches 3 seconds.
C7_MarkedAtStartup ==
    \A x \in Names :
        MarkedAtStartup(x) =>
            /\ \A i \in (startup_lines + 1)..Len(ledger) :
                  ~WrittenFor(ledger[i], x, current_date)
            /\ (IdentityFrame /\ detected_name = x) => banner # Success
            /\ (IdentityFrame /\ detected_name = x /\ streak.long >= 1)
               => banner = AlreadyMarked

\* C10: every identity in attendance_set has a record dated current_date in
\* the ledger.
C10_SetWithinLedger ==
    \A x \in attendance_set : \E i \in 1..Len(ledger) : RecordAt(i, x, current_date)

\* C15: every line appended since startup is, for some identity of the
\* gallery and some day of the calendar, that identity with the date of
\* the day and the weekday of the same day.
C15_WeekdayOfDate ==
    \A i \in (startup_lines + 1)..Len(ledger) :
        \E x \in Names, day \in DOMAIN Calendar :
            ledger[i] = WriteRecord(x, getCurrentDate(day), getCurrentDay(day))

C17_FailedOpenHasNoEffect ==
    (IdentityFrame /\ ev.call /\ ~ev.append)
    => (detected_name \notin attendance_set /\ banner # Success)

\* C18: an iteration of the loop with an empty frame stays in the loop and
\* leaves candidate_name, candidate_start, verified_today, attendance_set,
\* last_mark_time and the ledger as they were.
C18_EmptyFrameSkipped ==
    [][(pc = "run" /\ ev'.empty /\ steady_clock' # steady_clock)
       => (/\ pc' = "run"
           /\ candidate_name' = candidate_name
           /\ candidate_start' = candidate_start
           /\ verified_today' = verified_today
           /\ attendance_set' = attendance_set
           /\ last_mark_time' = last_mark_time
           /\ ledger' = ledger)]_vars

\* an empty frame in the middle of a run of Alice that is being verified
C18_Witness ==
    /\ pc = "run"
    /\ ev.empty
    /\ streak.on
    /\ candidate_name = Alice
    /\ banner = "Verifying"
    /\ steady_clock > candidate_start + 1

---------------------------------------------------------------------------
(* The ledger over restarts of the process: the constructor, sessions that  *)
(* mark an identity, and the end of the process followed by a new start.    *)

MaxStart == 3
MaxLines == 5

\* lines a ledger may hold when the first process starts: records of today
\* and of yesterday, a line cut after the date, an empty line, a record
\* followed by a fourth field
StartLines ==
    { OldLine(Alice, 2), OldLine(Alice, 1),
      Alice \o <<",">> \o getCurrentDate(2), <<>>,
      OldLine(Bob, 2) \o <<",", "x">> }

StartLedgers == UNION {[1..k -> StartLines] : k \in 0..MaxStart}

InitLedger ==
    /\ pc = "ctor"
    /\ system_clock = 2
    /\ steady_clock = 0
    /\ current_date = <<>>
    /\ ledger \in StartLedgers
    /\ startup_lines = Len(ledger)
    /\ attendance_set = {}
    /\ last_mark_time = << >>
    /\ photos = Photos
    /\ signature = << >>
    /\ known_faces = <<>>
    /\ candidate_name = Unknown
    /\ candidate_start = 0
    /\ verified_today = FALSE
    /\ detected_name = Unknown
    /\ banner = "none"
    /\ key = "none"
    /\ ev = NoEvent
    /\ streak = NoStreak
    /\ face = Stranger
    /\ best_name = Unknown

\* AttendanceSystem::AttendanceSystem
Construct ==
    /\ pc = "ctor"
    /\ current_date' = getCurrentDate(system_clock)
    /\ attendance_set' = loadAttendance(ledger, current_date')
    /\ signature' = loadKnownFaces(photos).faces
    /\ known_faces' = GalleryOrder
    /\ pc' = "menu"
    /\ UNCHANGED <<system_clock, steady_clock, last_mark_time, photos, ledger,
                   startup_lines, candidate_name, candidate_start, verified_today,
                   detected_name, banner, key, ev, streak, face, best_name>>

\* a session of runAttendance in which name is the input of the frames for
\* 3 seconds, so that the frame at 3 seconds takes the branch of the frame
\* logic for a candidate held since steady_clock, and that is then quit
MarkSession ==
    /\ pc = "menu"
    /\ Len(ledger) < MaxLines
    /\ \E name \in Range(known_faces), is_open \in BOOLEAN :
          LET now == steady_clock + DwellSeconds * TicksPerSec
              r == markAttendance(name, now, attendance_set, last_mark_time,
                                  ledger, current_date,
                                  getCurrentDay(system_clock), is_open)
          IN  /\ now <= MaxTime
              /\ Branch(name, name, steady_clock, FALSE, attendance_set, now) = "mark"
              /\ steady_clock' = now
              /\ attendance_set' = r.set
              /\ last_mark_time' = r.lmt
              /\ ledger' = r.lines
    /\ UNCHANGED <<pc, system_clock, current_date, known_faces, signature, photos,
                   startup_lines, candidate_name, candidate_start, verified_today,
                   detected_name, banner, key, ev, streak, face, best_name>>

\* main returns and the program is started again: the fields of the new
\* AttendanceSystem are empty, the file is as the old process left it
Restart ==
    /\ pc = "menu"
    /\ pc' = "ctor"
    /\ current_date' = <<>>
    /\ attendance_set' = {}
    /\ last_mark_time' = << >>
    /\ signature' = << >>
    /\ known_faces' = <<>>
    /\ startup_lines' = Len(ledger)
    /\ UNCHANGED <<system_clock, steady_clock, photos, ledger, candidate_name,
                   candidate_start, verified_today, detected_name, banner, key,
                   ev, streak, face, best_name>>

NextLedger ==
    \/ Construct
    \/ MarkSession
    \/ Restart
    \/ Midnight

SpecLedger == InitLedger /\ [][NextLedger]_vars

\* C11: once the constructor has run, every identity of the gallery for
\* which the ledger holds the line markAttendance writes for it on the
\* current date is in attendance_set (the record reads back into the
\* identity it was written for).
C11_RoundTrip ==
    pc = "menu" =>
        \A i \in 1..Len(ledger) : \A x \in Range(known_faces) :
            WrittenFor(ledger[i], x, current_date) => x \in attendance_set

\* C12: the constructor leaves in attendance_set exactly the identities of
\* the lines with two commas or more whose text between the first and the
\* second comma is the date of the process start, and leaves the ledger as
\* it found it.
C12_LoadedSet ==
    [][(pc = "ctor" /\ pc' = "menu")
       => (attendance_set' = RecordedAtStartup' /\ ledger' = ledger)]_vars

\* constructed from a ledger that holds a record of today, a record of
\* another day and a line that is no record
C12_Witness ==
    /\ pc = "menu"
    /\ last_mark_time = << >>
    /\ Len(ledger) = startup_lines
    /\ attendance_set # {}
    /\ \E i \in 1..Len(ledger) : ~IsRecord(ledger[i])
    /\ \E i \in 1..Len(ledger) :
          IsRecord(ledger[i]) /\ RecordDate(ledger[i]) # current_date

---------------------------------------------------------------------------
(* markAttendance on its own: a public member function, called for any    *)
(* name of the gallery at any time                                         *)

MaxCoolTime == 21

\* a photos directory of two
TwoPhotos == [exists |-> TRUE, entries |-> SubSeq(Photos.entries, 1, 2)]

InitCooldown ==
    /\ pc = "call"
    /\ system_clock = 2
    /\ steady_clock = 0
    /\ current_date = getCurrentDate(system_clock)
    /\ ledger = <<>>
    /\ startup_lines = 0
    /\ attendance_set = loadAttendance(ledger, current_date)
    /\ last_mark_time = << >>
    /\ photos = TwoPhotos
    /\ signature = loadKnownFaces(photos).faces
    /\ known_faces = <<EmptyName, Alice>>
    /\ candidate_name = Unknown
    /\ candidate_start = 0
    /\ verified_today = FALSE
    /\ detected_name = Unknown
    /\ banner = "none"
    /\ key = "none"
    /\ ev = NoEvent
    /\ streak = NoStreak
    /\ face = Stranger
    /\ best_name = Unknown

\* one call markAttendance(name)
CallMark ==
    /\ pc = "call"
    /\ \E d \in 1..MaxStep, name \in Range(known_faces), is_open \in BOOLEAN :
          LET now == steady_clock + d
              r == markAttendance(name, now, attendance_set, last_mark_time,
                                  ledger, current_date,
                                  getCurrentDay(system_clock), is_open)
          IN  /\ now <= MaxCoolTime
              /\ steady_clock' = now
              /\ attendance_set' = r.set
              /\ last_mark_time' = r.lmt
              /\ ledger' = r.lines
              /\ ev' = [frame |-> FALSE, empty |-> FALSE, call |-> TRUE, stamp |-> r.stamp,
                        insert |-> r.insert, append |-> r.append, boxes |-> <<>>]
    /\ UNCHANGED <<pc, system_clock, current_date, known_faces, signature, photos,
                   startup_lines, candidate_name, candidate_start, verified_today,
                   detected_name, banner, key, streak, face, best_name>>

NextCooldown == CallMark

SpecCooldown == InitCooldown /\ [][NextCooldown]_vars

\* C13: a call that writes the time of X into the cooldown table over an
\* earlier entry of X comes 10 seconds or more after that entry.
C13_TenSecondsApart ==
    [][\A x \in DOMAIN last_mark_time :
          last_mark_time'[x] # last_mark_time[x]
          => last_mark_time'[x] - last_mark_time[x] >= CooldownSeconds * TicksPerSec]_vars

\* a second write of an identity's time: the call got past the cooldown
\* check and found the identity in attendance_set, where only an earlier
\* call can have put it
C13_Witness ==
    /\ pc = "call"
    /\ ev.stamp
    /\ ~ev.insert
    /\ startup_lines = 0

---------------------------------------------------------------------------
(* loadKnownFaces on its own: every directory of up to MaxPhotos of the     *)
(* entries below, in every order the iterator may list them, and the        *)
(* directory that does not exist                                            *)

MaxPhotos == 3

DirEntries ==
    { [stem |-> <<"A", "_", "1">>, ext |-> <<".", "j", "p", "g">>,
       regular |-> TRUE, img |-> 1],
      [stem |-> <<"A", "-", "2">>, ext |-> <<".", "P", "N", "G">>,
       regular |-> TRUE, img |-> 2],
      [stem |-> <<"A", " ", "3">>, ext |-> <<".", "j", "p", "g">>,
       regular |-> TRUE, img |-> NoFace],
      [stem |-> <<"B">>, ext |-> <<".", "j", "p", "g">>,
       regular |-> TRUE, img |-> 3],
      [stem |-> <<"_", "x">>, ext |-> <<".", "j", "p", "g">>,
       regular |-> TRUE, img |-> 4],
      [stem |-> <<"A", "_", "9">>, ext |-> <<".", "t", "x", "t">>,
       regular |-> TRUE, img |-> 5],
      [stem |-> <<"A", "_", "7">>, ext |-> <<".", "j", "p", "g">>,
       regular |-> FALSE, img |-> NoFace] }

Injective(f) == \A i, j \in DOMAIN f : i # j => f[i] # f[j]

Listings ==
    {es \in UNION {[1..k -> DirEntries] : k \in 0..MaxPhotos} : Injective(es)}

\* the orders in which an unordered_map with the keys S may be iterated
Orders(S) == {kf \in [1..Cardinality(S) -> S] : Injective(kf)}

InitGallery ==
    /\ pc = "load"
    /\ photos \in {[exists |-> TRUE, entries |-> es] : es \in Listings}
                  \cup {[exists |-> FALSE, entries |-> <<>>]}
    /\ signature = << >>
    /\ known_faces = <<>>
    /\ system_clock = 2
    /\ steady_clock = 0
    /\ current_date = getCurrentDate(system_clock)
    /\ ledger = <<>>
    /\ startup_lines = 0
    /\ attendance_set = {}
    /\ last_mark_time = << >>
    /\ candidate_name = Unknown
    /\ candidate_start = 0
    /\ verified_today = FALSE
    /\ detected_name = Unknown
    /\ banner = "none"
    /\ key = "none"
    /\ ev = NoEvent
    /\ streak = NoStreak
    /\ face = Stranger
    /\ best_name = Unknown

\* the call of loadKnownFaces in the constructor
LoadKnownFaces ==
    /\ pc = "load"
    /\ LET r == loadKnownFaces(photos)
       IN  IF r.exit
           THEN /\ pc' = "aborted"
                /\ UNCHANGED <<signature, known_faces>>
           ELSE /\ pc' = "menu"
                /\ signature' = r.faces
                /\ known_faces' \in Orders(DOMAIN r.faces)
    /\ UNCHANGED <<system_clock, steady_clock, current_date, attendance_set,
                   last_mark_time, photos, ledger, startup_lines, candidate_name,
                   candidate_start, verified_today, detected_name, banner, key,
                   ev, streak, face, best_name>>

NextGallery == LoadKnownFaces

SpecGallery == InitGallery /\ [][NextGallery]_vars

\* an enrollment image that can be used: a regular file with the extension
\* of an image in which a face is found
Usable(e) == e.regular /\ isImage(e.ext) /\ e.img # NoFace

\* where the usable images of identity n stand in the listing
UsableAt(n) ==
    {i \in DOMAIN photos.entries :
        Usable(photos.entries[i]) /\ inferName(photos.entries[i].stem) = n}

Enrolled == {inferName(photos.entries[i].stem) :
                i \in {j \in DOMAIN photos.entries : Usable(photos.entries[j])}}

LastOf(S) == CHOOSE i \in S : \A j \in S : j <= i

\* C14: when loadKnownFaces returns, the gallery is not empty, holds each
\* identity that has a usable image once and no other, and keeps for it the
\* face of its usable image listed last; when the directory is missing or
\* no image is usable the process is ended and nothing is returned.
C14_LastImageWins ==
    /\ pc = "menu" =>
          /\ DOMAIN signature # {}
          /\ DOMAIN signature = Enrolled
          /\ Range(known_faces) = DOMAIN signature
          /\ Injective(known_faces)
          /\ \A n \in DOMAIN signature :
                signature[n] = photos.entries[LastOf(UsableAt(n))].img
    /\ pc = "aborted" => (~photos.exists \/ Enrolled = {})
    /\ (pc # "load" /\ (~photos.exists \/ Enrolled = {})) => pc = "aborted"

\* an identity with two usable images, and another identity beside it
C14_Witness ==
    /\ pc = "menu"
    /\ Cardinality(UsableAt(Alice)) = 2
    /\ Cardinality(DOMAIN signature) = 2

---------------------------------------------------------------------------
(* The earlier program, src/unnamed/part_000: no dwell time, no cooldown;  *)
(* every face of every frame goes to markAttendance under the name         *)
(* recognizeFace gives it.  known_faces holds face_names, the stems of the *)
(* photos in the order of the listing.                                     *)

Threshold_part000 == 1000
MinDiff_part000 == 1000000000

\* the date without setw(2): "2026-11-6"
getCurrentDate_part000(day) ==
    LET local_tm == Calendar[day]
    IN  Dec(local_tm.tm_year + 1900) \o <<"-">> \o Dec(local_tm.tm_mon + 1)
            \o <<"-">> \o Dec(local_tm.tm_mday)

\* s.substr(0, s.find(',')): the whole of s where it has no comma
UpToComma(s) ==
    IF find(s, ",", 0) = NPOS THEN s ELSE substr(s, 0, find(s, ",", 0))

\* s.substr(s.find(',') + 1): npos + 1 wraps to 0, the whole of s
AfterComma(s) ==
    IF find(s, ",", 0) = NPOS THEN s ELSE substr(s, find(s, ",", 0) + 1, Len(s))

LoadLine_part000(line, date) ==
    IF UpToComma(AfterComma(line)) = date THEN {UpToComma(line)} ELSE {}

loadAttendance_part000(lines, date) ==
    UNION {LoadLine_part000(lines[i], date) : i \in 1..Len(lines)}

markAttendance_part000(name, set, lines, date, day, is_open) ==
    IF name \in set THEN [set |-> set, lines |-> lines]
    ELSE [set |-> set \cup {name},
          lines |-> IF is_open THEN Append(lines, WriteRecord(name, date, day))
                    ELSE lines]

\* every regular file that imread can read, under its stem
RECURSIVE loadKnownFaces_part000(_, _, _)
loadKnownFaces_part000(entries, i, face_names) ==
    IF i > Len(entries) THEN face_names
    ELSE IF entries[i].regular /\ entries[i].img # NoFace
         THEN loadKnownFaces_part000(entries, i + 1, Append(face_names, entries[i].stem))
         ELSE loadKnownFaces_part000(entries, i + 1, face_names)

RECURSIVE ScanFaces_part000(_, _, _, _, _)
ScanFaces_part000(mse, face_names, i, min_diff, name) ==
    IF i > Len(face_names) THEN name
    ELSE IF mse[face_names[i]] < min_diff /\ mse[face_names[i]] < Threshold_part000
         THEN ScanFaces_part000(mse, face_names, i + 1, mse[face_names[i]], face_names[i])
         ELSE ScanFaces_part000(mse, face_names, i + 1, min_diff, name)

recognizeFace_part000(mse, face_names) ==
    ScanFaces_part000(mse, face_names, 1, MinDiff_part000, Unknown)

\* the loop over the faces of a frame: recognizeFace, then markAttendance
RECURSIVE FacesLoop_part000(_, _, _, _, _, _, _)
FacesLoop_part000(names, i, set, lines, date, day, is_open) ==
    IF i > Len(names) THEN [set |-> set, lines |-> lines]
    ELSE LET r == markAttendance_part000(names[i], set, lines, date, day, is_open)
         IN  FacesLoop_part000(names, i + 1, r.set, r.lines, date, day, is_open)

\* the faces a frame may show, by their difference to each known photo
Queries_part000(face_names) ==
    {[m \in Range(face_names) |-> IF m = n THEN Near ELSE Far] : n \in Range(face_names)}
        \cup {[m \in Range(face_names) |-> Far]}

FaceLists_part000(face_names) ==
    UNION {[1..k -> Queries_part000(face_names)] : k \in 0..MaxFaces}

OldLine_part000(name, day) ==
    WriteRecord(name, getCurrentDate_part000(day), getCurrentDay(day))

InitLedgers_part000 ==
    { <<>>,
      <<OldLine_part000(<<"A", "_", "1">>, 2)>>,
      <<OldLine_part000(Unknown, 1), getCurrentDate_part000(2)>> }

Init_part000 ==
    /\ pc = "menu"
    /\ system_clock = 2
    /\ steady_clock = 0
    /\ current_date = getCurrentDate_part000(system_clock)
    /\ ledger \in InitLedgers_part000
    /\ startup_lines = Len(ledger)
    /\ attendance_set = loadAttendance_part000(ledger, current_date)
    /\ last_mark_time = << >>
    /\ photos \in {TwoPhotos, [exists |-> TRUE, entries |-> <<>>]}
    /\ signature = << >>
    /\ known_faces = <<>>
    /\ candidate_name = Unknown
    /\ candidate_start = 0
    /\ verified_today = FALSE
    /\ detected_name = Unknown
    /\ banner = "none"
    /\ key = "none"
    /\ ev = NoEvent
    /\ streak = NoStreak
    /\ face = Stranger
    /\ best_name = Unknown

\* main, choice 1: runAttendance up to its loop
StartAttendance_part000 ==
    /\ pc = "menu"
    /\ loadKnownFaces_part000(photos.entries, 1, <<>>) # <<>>
    /\ known_faces' = loadKnownFaces_part000(photos.entries, 1, <<>>)
    /\ pc' = "run"
    /\ ev' = NoEvent
    /\ detected_name' = Unknown
    /\ UNCHANGED <<system_clock, steady_clock, current_date, attendance_set,
                   last_mark_time, signature, photos, ledger, startup_lines,
                   candidate_name, candidate_start, verified_today, banner, key,
                   streak, face, best_name>>

\* main, choice 1, with no photo to load or no webcam: runAttendance returns
NoAttendance_part000 ==
    /\ pc = "menu"
    /\ UNCHANGED vars

\* main, choice 2
ViewAttendanceToday_part000 ==
    /\ pc = "menu"
    /\ UNCHANGED vars

\* one iteration of the loop with an empty frame: continue
EmptyFrame_part000 ==
    /\ pc = "run"
    /\ ev' = [NoEvent EXCEPT !.empty = TRUE]
    /\ UNCHANGED <<pc, system_clock, steady_clock, current_date, attendance_set,
                   last_mark_time, known_faces, signature, photos, ledger,
                   startup_lines, candidate_name, candidate_start, verified_today,
                   detected_name, banner, key, streak, face, best_name>>

\* one iteration of the loop with a frame
ProcessFrame_part000 ==
    /\ pc = "run"
    /\ \E faces \in FaceLists_part000(known_faces), is_open \in BOOLEAN,
          quit \in {IsQuit(c) : c \in Keys} :
          LET names == [i \in DOMAIN faces |-> recognizeFace_part000(faces[i], known_faces)]
              r == FacesLoop_part000(names, 1, attendance_set, ledger, current_date,
                                     getCurrentDay(system_clock), is_open)
          IN  /\ attendance_set' = r.set
              /\ ledger' = r.lines
              /\ detected_name' = IF names = <<>> THEN Unknown ELSE names[Len(names)]
              /\ ev' = [frame |-> TRUE, empty |-> FALSE, call |-> names # <<>>,
                        stamp |-> FALSE, insert |-> r.set # attendance_set,
                        append |-> r.lines # ledger, boxes |-> names]
              /\ pc' = IF quit THEN "menu" ELSE "run"
    /\ UNCHANGED <<system_clock, steady_clock, current_date, last_mark_time,
                   known_faces, signature, photos, startup_lines, candidate_name,
                   candidate_start, verified_today, banner, key, streak, face,
                   best_name>>

\* main, choice 3
Exit_part000 ==
    /\ pc = "menu"
    /\ pc' = "exit"
    /\ UNCHANGED <<system_clock, steady_clock, current_date, attendance_set,
                   last_mark_time, known_faces, signature, photos, ledger,
                   startup_lines, candidate_name, candidate_start, verified_today,
                   detected_name, banner, key, ev, streak, face, best_name>>

Next_part000 ==
    \/ StartAttendance_part000
    \/ NoAttendance_part000
    \/ ViewAttendanceToday_part000
    \/ EmptyFrame_part000
    \/ ProcessFrame_part000
    \/ Midnight
    \/ Exit_part000

Spec_part000 == Init_part000 /\ [][Next_part000]_vars

---------------------------------------------------------------------------
(* The run loop step by step, with the operator's key press held in key    *)
(* until a waitKey takes it: pc "run" is the top of the loop, "empty" and  *)
(* "frame" the point after cap >> frame.  The clock stays at MaxTime once  *)
(* it has reached it, so that the loop can go on for ever.                 *)

InitQuit ==
    /\ Init
    /\ ledger = <<>>

\* the operator presses q or Q while the window is open
PressQuit ==
    /\ pc \in {"run", "empty", "frame"}
    /\ key = "none"
    /\ key' \in {c \in Keys : IsQuit(c)}
    /\ UNCHANGED <<pc, system_clock, steady_clock, current_date, attendance_set,
                   last_mark_time, known_faces, signature, photos, ledger,
                   startup_lines, candidate_name, candidate_start, verified_today,
                   detected_name, banner, ev, streak, face, best_name>>

\* cap >> frame
Capture ==
    /\ pc = "run"
    /\ pc' \in {"empty", "frame"}
    /\ UNCHANGED <<system_clock, steady_clock, current_date, attendance_set,
                   last_mark_time, known_faces, signature, photos, ledger,
                   startup_lines, candidate_name, candidate_start, verified_today,
                   detected_name, banner, key, ev, streak, face, best_name>>

\* if (frame.empty()) continue;
Continue ==
    /\ pc = "empty"
    /\ pc' = "run"
    /\ ev' = [NoEvent EXCEPT !.empty = TRUE]
    /\ UNCHANGED <<system_clock, steady_clock, current_date, attendance_set,
                   last_mark_time, known_faces, signature, photos, ledger,
                   startup_lines, candidate_name, candidate_start, verified_today,
                   detected_name, banner, key, streak, face, best_name>>

\* the rest of the loop body for a frame; waitKey takes the key
Process ==
    /\ pc = "frame"
    /\ \E detected \in {DetectedName(faces, known_faces) : faces \in FaceLists},
          d \in 1..MaxStep :
          LET now == IF steady_clock + d <= MaxTime THEN steady_clock + d ELSE MaxTime
          IN  /\ steady_clock' = now
              /\ FrameStep(now, <<>>, detected, IsQuit(key))
    /\ key' = "none"
    /\ UNCHANGED <<system_clock, current_date, known_faces, signature, photos,
                   startup_lines, face, best_name>>

NextQuit ==
    \/ StartAttendance
    \/ PressQuit
    \/ Capture
    \/ Continue
    \/ Process

\* the loop does not stop by itself: each of its steps is taken in time
SpecQuit ==
    /\ InitQuit
    /\ [][NextQuit]_vars
    /\ WF_vars(Capture)
    /\ WF_vars(Continue)
    /\ WF_vars(Process)

\* C19: once q or Q is pressed during a session, the loop is left.
C19_QuitLeavesLoop ==
    (pc \in {"run", "empty", "frame"} /\ IsQuit(key)) ~> (pc = "menu")

---------------------------------------------------------------------------
(* Sessions in which the names given to the first and to the last face of  *)
(* the frame are kept in ev.boxes                                          *)

InitFaces ==
    /\ Init
    /\ ledger = <<>>

\* the names recognizeFace gives to the first and the last of the faces
Ends(faces, kf) ==
    IF faces = <<>> THEN <<>>
    ELSE IF Len(faces) = 1 THEN <<recognizeFace(faces[1], kf)>>
    ELSE <<recognizeFace(faces[1], kf), recognizeFace(faces[Len(faces)], kf)>>

ProcessFaces ==
    /\ pc = "run"
    /\ \E in \in {<<Ends(faces, known_faces), DetectedName(faces, known_faces)>> :
                    faces \in FaceLists},
          d \in 1..MaxStep,
          quit \in {IsQuit(c) : c \in Keys} :
          /\ steady_clock + d <= MaxTime
          /\ steady_clock' = steady_clock + d
          /\ FrameStep(steady_clock + d, in[1], in[2], quit)
    /\ UNCHANGED <<system_clock, current_date, known_faces, signature, photos,
                   key, startup_lines, face, best_name>>

NextFaces ==
    \/ StartAttendance
    \/ ProcessFaces

SpecFaces == InitFaces /\ [][NextFaces]_vars

\* the name of the last face of the frame; Unknown for a frame without face
LastBox(boxes) == IF boxes = <<>> THEN Unknown ELSE boxes[Len(boxes)]

\* C20: a frame acts on the verification logic by the name of its last face
\* alone.  That name is the frame's input; if it is Unknown the candidate
\* is dropped and nothing is written, whatever the earlier faces were; if
\* it is an identity, that identity is the candidate after the frame, with
\* a new start time exactly when it differs from the candidate before; and
\* a frame adds at most that one identity to attendance_set and at most one
\* line to the ledger.
C20_LastBoxDecides ==
    [][(pc = "run" /\ ev'.frame)
       => LET last == LastBox(ev'.boxes)
          IN  /\ detected_name' = last
              /\ last = Unknown =>
                    /\ candidate_name' = <<>>
                    /\ ~verified_today'
                    /\ attendance_set' = attendance_set
                    /\ ledger' = ledger
              /\ last # Unknown =>
                    /\ candidate_name' = last
                    /\ candidate_name # last => candidate_start' = steady_clock'
                    /\ candidate_name = last => candidate_start' = candidate_start
              /\ attendance_set' \ attendance_set \subseteq {last}
              /\ Len(ledger') <= Len(ledger) + 1]_vars

\* a frame with a face of Alice and then a face matched to none, after a
\* run of Alice: the run is broken
C20_Witness ==
    /\ pc = "run"
    /\ ev.frame
    /\ Len(ev.boxes) = 2
    /\ ev.boxes[1] = Alice
    /\ ev.boxes[2] = Unknown
    /\ streak.last = Alice
    /\ ~streak.on
    /\ candidate_name = <<>>

---------------------------------------------------------------------------
(* The cooldown table within one process: a run long enough for a cooldown *)
(* to expire, with frames a dwell time or a cooldown apart                  *)

MaxRunTime == 44

\* the time between two iterations of the loop, in ticks
RunSteps == {DwellSeconds * TicksPerSec, CooldownSeconds * TicksPerSec}

InitLongRun ==
    /\ Init

\* one iteration of the loop with an empty frame: continue
EmptyFrameLong ==
    /\ pc = "run"
    /\ \E d \in RunSteps :
          /\ steady_clock + d <= MaxRunTime
          /\ steady_clock' = steady_clock + d
    /\ ev' = [NoEvent EXCEPT !.empty = TRUE]
    /\ UNCHANGED <<pc, system_clock, current_date, attendance_set, last_mark_time,
                   known_faces, signature, photos, key, ledger, startup_lines,
                   candidate_name, candidate_start, verified_today,
                   detected_name, banner, streak, face, best_name>>

\* one iteration of the loop with a frame
ProcessFrameLong ==
    /\ pc = "run"
    /\ \E detected \in {DetectedName(faces, known_faces) : faces \in FaceLists},
          d \in RunSteps,
          quit \in {IsQuit(c) : c \in Keys} :
          /\ steady_clock + d <= MaxRunTime
          /\ steady_clock' = steady_clock + d
          /\ FrameStep(steady_clock + d, <<>>, detected, quit)
    /\ UNCHANGED <<system_clock, current_date, known_faces, signature, photos,
                   key, startup_lines, face, best_name>>

NextLongRun ==
    \/ StartAttendance
    \/ EmptyFrameLong
    \/ ProcessFrameLong
    \/ Midnight

SpecLongRun == InitLongRun /\ [][NextLongRun]_vars

\* C21: every identity with an entry in last_mark_time is in
\* attendance_set; and a frame (a step that moves the steady clock) that
\* calls markAttendance calls it for an
\* identity that has no entry yet, so no identity is called twice in the
\* process (every call for an identity without entry leaves an entry), the
\* call passes the cooldown test, stamps the table and puts the identity
\* into attendance_set.
C21_CooldownNeverTaken ==
    /\ [](DOMAIN last_mark_time \subseteq attendance_set)
    /\ [][(pc = "run" /\ ev'.call /\ steady_clock' # steady_clock)
          => /\ candidate_name = detected_name'
             /\ detected_name' \notin DOMAIN last_mark_time
             /\ ~CooldownActive(last_mark_time, detected_name', steady_clock')
             /\ ev'.stamp
             /\ ev'.insert
             /\ detected_name' \in DOMAIN last_mark_time'
             /\ last_mark_time'[detected_name'] = steady_clock']_vars

\* Alice was called in this process, left the frame and came back; at this
\* frame she is past her dwell time again and her cooldown has expired, so
\* only the test of attendance_set keeps the frame from calling
\* markAttendance a second time
C21_Witness ==
    /\ pc = "run"
    /\ ev.frame
    /\ ~ev.call
    /\ detected_name = Alice
    /\ streak.resumed
    /\ streak.calls = 0
    /\ streak.pre
    /\ candidate_name = Alice
    /\ DwellReached(steady_clock, candidate_start)
    /\ Alice \in DOMAIN last_mark_time
    /\ ~CooldownActive(last_mark_time, Alice, steady_clock)
    /\ verified_today
    /\ banner = AlreadyMarked

=============================================================================
